---- MODULE Spec2Model ----
(***************************************************************************)
(* Coffee-leaf-disease training stack: the dataset / loader layer of       *)
(* model/data_loader.py and the network shapes and metrics of model/cnn.py.*)
(* Strings are sequences of one-character strings, Python lists are        *)
(* sequences (index i of the code is position i+1 here), dicts are         *)
(* functions, floats produced by a division are exact rationals <<n, d>>.  *)
(***************************************************************************)
EXTENDS Integers, Sequences, FiniteSets, TLC

VARIABLES
    \* LeafDataset object under test (SpecDataset)
    dpc, listing, dataset, counts, item,
    \* fetch_dataloader call (Spec)
    pc, types, params, splitIdx, dataloaders, weighted_sampler, result,
    \* one traversal of a returned loader (SpecEpoch)
    ipc, cur, drawn, batch, delivered, prevOrder,
    \* Net.forward (SpecNet)
    npc, input, shape,
    \* accuracy (SpecAcc)
    apc, outputs, labels, preds, acc

dsVars == <<dpc, listing, dataset, counts, item>>
fetchVars == <<pc, types, params, splitIdx, dataloaders, weighted_sampler, result>>
epochVars == <<ipc, cur, drawn, batch, delivered, prevOrder>>
netVars == <<npc, input, shape>>
accVars == <<apc, outputs, labels, preds, acc>>
vars == <<dsVars, fetchVars, epochVars, netVars, accVars>>

----------------------------------------------------------------------------
(* Bounds *)

MaxFiles == 3

----------------------------------------------------------------------------
(* Strings and paths *)

Jpg == <<".", "j", "p", "g">>

\* Directory entries os.listdir may return.
Name0a == <<"0", "a">> \o Jpg
Name0b == <<"0", "b">> \o Jpg
Name7 == <<"7">> \o Jpg
NameX == <<"x">> \o Jpg
NamePng == <<"1", ".", "p", "n", "g">>
Names == {Name0a, Name0b, Name7, NameX, NamePng}

DataDir == <<"d">>

SplitOrder == <<"train", "val", "test">>

SplitChars(split) ==
    CASE split = "train" -> <<"t", "r", "a", "i", "n">>
      [] split = "val" -> <<"v", "a", "l">>
      [] split = "test" -> <<"t", "e", "s", "t">>

\* str.endswith
endswith(s, suffix) ==
    /\ Len(s) >= Len(suffix)
    /\ SubSeq(s, Len(s) - Len(suffix) + 1, Len(s)) = suffix

\* os.path.join (posix) of two components
join(a, b) ==
    IF Len(b) > 0 /\ b[1] = "/" THEN b
    ELSE IF a = <<>> \/ a[Len(a)] = "/" THEN a \o b
    ELSE a \o <<"/">> \o b

\* os.path.split(p)[-1]: what follows the last "/"
basename(p) ==
    LET slashes == {i \in 1..Len(p) : p[i] = "/"}
        last == IF slashes = {} THEN 0
                ELSE CHOOSE i \in slashes : \A j \in slashes : j <= i
    IN SubSeq(p, last + 1, Len(p))

\* int(c) of a one-character string is defined on the decimal digits only
int_defined(c) == c \in {"0", "1", "2", "3", "4", "5", "6", "7", "8", "9"}

int_ord(c) == 48 +
    (CASE c = "0" -> 0 [] c = "1" -> 1 [] c = "2" -> 2 [] c = "3" -> 3
       [] c = "4" -> 4 [] c = "5" -> 5 [] c = "6" -> 6 [] c = "7" -> 7
       [] c = "8" -> 8 [] c = "9" -> 9)

int(c) ==
    CASE c = "0" -> 0 [] c = "1" -> 1 [] c = "2" -> 2 [] c = "3" -> 3
      [] c = "4" -> 4 [] c = "5" -> 5 [] c = "6" -> 6 [] c = "7" -> 7
      [] c = "8" -> 8 [] c = "9" -> 9

\* All listings without repeated names, of at most MaxFiles entries.
RECURSIVE ListingsOfLen(_)
ListingsOfLen(n) ==
    IF n = 0 THEN {<<>>}
    ELSE {Append(l, f) : l \in ListingsOfLen(n - 1), f \in Names}

NoRepeat(l) == \A i, j \in 1..Len(l) : l[i] = l[j] => i = j

Listings ==
    {l \in UNION {ListingsOfLen(n) : n \in 0..MaxFiles} : NoRepeat(l)}

----------------------------------------------------------------------------
(* LeafDataset *)

NoDataset == [ok |-> FALSE, filenames |-> <<>>, labels |-> <<>>]

\* the comprehension's filter of LeafDataset.__init__
keeps_any(f) == TRUE

keeps(f) == endswith(f, Jpg)

\* the label comprehension raises ValueError on the first non-digit
label_parses(filename) ==
    LET b == basename(filename) IN Len(b) > 0 /\ int_defined(b[1])

\* lenient variant: silently leaves out the files whose label does not parse
LeafDatasetSkipping(data_dir, entries) ==
    LET kept == SelectSeq(entries, keeps)
        all == [i \in 1..Len(kept) |-> join(data_dir, kept[i])]
        filenames == SelectSeq(all, label_parses)
    IN [ok |-> TRUE,
        filenames |-> filenames,
        labels |-> [i \in 1..Len(filenames) |-> int(basename(filenames[i])[1])]]

\* LeafDataset(data_dir, transform), entries being os.listdir(data_dir);
\* ok = FALSE stands for the ValueError leaving the constructor
LeafDataset(data_dir, entries) ==
    LET kept == SelectSeq(entries, keeps)
        filenames == [i \in 1..Len(kept) |-> join(data_dir, kept[i])]
    IN IF \E i \in 1..Len(filenames) : ~label_parses(filenames[i])
       THEN NoDataset
       ELSE [ok |-> TRUE,
             filenames |-> filenames,
             labels |-> [i \in 1..Len(filenames) |->
                            int(basename(filenames[i])[1])]]

len(ds) == Len(ds.filenames)

\* collections.Counter over a list, as a dict
RECURSIVE CounterFrom(_, _, _)
CounterFrom(seq, i, c) ==
    IF i > Len(seq) THEN c
    ELSE LET k == seq[i]
             c2 == [x \in DOMAIN c \cup {k} |->
                       IF x = k THEN (IF k \in DOMAIN c THEN c[k] + 1 ELSE 1)
                       ELSE c[x]]
         IN CounterFrom(seq, i + 1, c2)

EmptyDict == [x \in {} |-> 0]

get_classes_counts(ds) == CounterFrom(ds.labels, 1, EmptyDict)

\* sum(d.values())
RECURSIVE SumOver(_, _)
SumOver(d, keys) ==
    IF keys = {} THEN 0
    ELSE LET k == CHOOSE x \in keys : TRUE
         IN d[k] + SumOver(d, keys \ {k})

sum_values(d) == SumOver(d, DOMAIN d)

\* __getitem__: the image is identified by the file it is decoded from
getitem(ds, idx) == <<ds.filenames[idx + 1], ds.labels[idx + 1]>>

----------------------------------------------------------------------------
(* Weighted batch sampler and loaders *)

MaxBatch == 2

\* total_count/v: the quotient as the rational <<numerator, denominator>>
class_weight_inverted(total_count, v) == <<v, total_count>>

class_weight(total_count, v) == <<total_count, v>>

NoSampler ==
    [ok |-> FALSE, weights |-> <<>>, num_samples |-> 0, batch_size |-> 0,
     drop_last |-> FALSE]

\* variant passing drop_last=False to BatchSampler
get_batched_weighted_sampler_keep_last(p, train_dataset) ==
    LET multiclass_dict == get_classes_counts(train_dataset)
        total_count == sum_values(multiclass_dict)
        class_weights == [k \in DOMAIN multiclass_dict |->
                             class_weight(total_count, multiclass_dict[k])]
        img_weights == [i \in 1..Len(train_dataset.labels) |->
                           class_weights[train_dataset.labels[i]]]
    IN IF total_count <= 0 THEN NoSampler
       ELSE [ok |-> TRUE, weights |-> img_weights, num_samples |-> total_count,
             batch_size |-> p.batch_size, drop_last |-> FALSE]

\* get_batched_weighted_sampler: BatchSampler(WeightedRandomSampler(img_weights,
\* total_count), batch_size, True). WeightedRandomSampler raises ValueError
\* when num_samples is not positive (ok = FALSE).
get_batched_weighted_sampler(p, train_dataset) ==
    LET multiclass_dict == get_classes_counts(train_dataset)
        total_count == sum_values(multiclass_dict)
        class_weights == [k \in DOMAIN multiclass_dict |->
                             class_weight(total_count, multiclass_dict[k])]
        img_weights == [i \in 1..Len(train_dataset.labels) |->
                           class_weights[train_dataset.labels[i]]]
    IN IF total_count <= 0 THEN NoSampler
       ELSE [ok |-> TRUE, weights |-> img_weights, num_samples |-> total_count,
             batch_size |-> p.batch_size, drop_last |-> TRUE]

\* variant that drops the last partial batch
DataLoaderDropLast(ds, batch_size, shuffle) ==
    [dataset |-> ds, sampler |-> IF shuffle THEN "random" ELSE "sequential",
     weights |-> <<>>, num_samples |-> len(ds), batch_size |-> batch_size,
     drop_last |-> TRUE]

\* DataLoader(dataset, batch_size=..., shuffle=...): RandomSampler (a
\* permutation) or SequentialSampler, batched with drop_last=False
DataLoader(ds, batch_size, shuffle) ==
    [dataset |-> ds, sampler |-> IF shuffle THEN "random" ELSE "sequential",
     weights |-> <<>>, num_samples |-> len(ds), batch_size |-> batch_size,
     drop_last |-> FALSE]

\* DataLoader(dataset, batch_sampler=...)
DataLoaderBatchSampler(ds, bs) ==
    [dataset |-> ds, sampler |-> "weighted", weights |-> bs.weights,
     num_samples |-> bs.num_samples, batch_size |-> bs.batch_size,
     drop_last |-> bs.drop_last]

\* variant whose default is weighted sampling
is_weighed_default_true(p) ==
    IF p.has_weighed_sampling THEN p.weighed_sampling ELSE TRUE

\* params.weighed_sampling if hasattr(params, 'weighed_sampling') else False
is_weighed(p) ==
    IF p.has_weighed_sampling THEN p.weighed_sampling ELSE FALSE

\* the loader fetch_dataloader keeps for the train split
train_loader(p, train_dataset, ws) ==
    LET dl_orig == DataLoader(train_dataset, p.batch_size, TRUE)
        dl_class_weighed == DataLoaderBatchSampler(train_dataset, ws)
    IN IF is_weighed(p) THEN dl_class_weighed ELSE dl_orig

\* variant shuffling the evaluation splits too
eval_loader_shuffled(p, ds) == DataLoader(ds, p.batch_size, TRUE)

\* the loader fetch_dataloader builds for the val and test splits
eval_loader(p, ds) == DataLoader(ds, p.batch_size, FALSE)

\* Params objects: weighed_sampling is an optional attribute
ParamsSet ==
    {[batch_size |-> b, has_weighed_sampling |-> h, weighed_sampling |-> w] :
        b \in 1..MaxBatch,
        h \in BOOLEAN, w \in BOOLEAN} \
    {[batch_size |-> b, has_weighed_sampling |-> FALSE, weighed_sampling |-> TRUE] :
        b \in 1..MaxBatch}

NoParams ==
    [batch_size |-> 0, has_weighed_sampling |-> FALSE, weighed_sampling |-> FALSE]

----------------------------------------------------------------------------
(* SpecDataset: one LeafDataset, from construction to its accessors *)

IdleDataset ==
    /\ dpc = "idle" /\ dataset = NoDataset /\ counts = EmptyDict /\ item = <<>>

IdleFetch ==
    /\ pc = "idle" /\ types = {} /\ params = NoParams /\ splitIdx = 0
    /\ dataloaders = EmptyDict /\ weighted_sampler = NoSampler
    /\ result = EmptyDict

IdleEpoch ==
    /\ ipc = "idle" /\ cur = "" /\ drawn = <<>> /\ batch = <<>>
    /\ delivered = <<>> /\ prevOrder = <<>>

IdleNet == npc = "idle" /\ input = <<>> /\ shape = <<>>

IdleAcc ==
    /\ apc = "idle" /\ outputs = <<>> /\ labels = <<>> /\ preds = <<>>
    /\ acc = <<>>

InitDataset ==
    /\ dpc = "new"
    /\ listing \in Listings
    /\ dataset = NoDataset
    /\ counts = EmptyDict
    /\ item = <<>>
    /\ IdleFetch /\ IdleEpoch /\ IdleNet /\ IdleAcc

DsConstruct ==
    /\ dpc = "new"
    /\ LET ds == LeafDataset(join(DataDir, SplitChars("train")), listing)
       IN /\ dataset' = ds
          /\ dpc' = IF ds.ok THEN "built" ELSE "fault"
    /\ UNCHANGED <<listing, counts, item>>
    /\ UNCHANGED <<fetchVars, epochVars, netVars, accVars>>

DsGetClassesCounts ==
    /\ dpc = "built"
    /\ counts' = get_classes_counts(dataset)
    /\ UNCHANGED <<dpc, listing, dataset, item>>
    /\ UNCHANGED <<fetchVars, epochVars, netVars, accVars>>

DsGetItem ==
    /\ dpc = "built"
    /\ \E idx \in 0..(len(dataset) - 1) : item' = getitem(dataset, idx)
    /\ UNCHANGED <<dpc, listing, dataset, counts>>
    /\ UNCHANGED <<fetchVars, epochVars, netVars, accVars>>

NextDataset == DsConstruct \/ DsGetClassesCounts \/ DsGetItem

SpecDataset == InitDataset /\ [][NextDataset]_vars

DigitChars == <<"0", "1", "2", "3", "4", "5", "6", "7", "8", "9">>

\* the value of the decimal digit a name starts with
LeadingDigit(name) == (CHOOSE k \in 1..10 : DigitChars[k] = name[1]) - 1

NumClasses == 6

\* C4: the label histogram sums to len(dataset); labels and filenames have
\* the same length, labels[i] is the leading digit of the base name of
\* filenames[i], and the files are exactly the listing's '.jpg' entries.
C4_HistogramAndLabels ==
    dpc = "built" =>
        LET jpgs == SelectSeq(listing, LAMBDA f : Len(f) >= 4 /\
                        SubSeq(f, Len(f) - 3, Len(f)) = <<".", "j", "p", "g">>)
        IN /\ sum_values(get_classes_counts(dataset)) = len(dataset)
           /\ counts # EmptyDict => sum_values(counts) = len(dataset)
           /\ Len(dataset.labels) = Len(dataset.filenames)
           /\ Len(dataset.filenames) = Len(jpgs)
           /\ \A i \in 1..Len(jpgs) :
                 /\ basename(dataset.filenames[i]) = jpgs[i]
                 /\ dataset.labels[i] = LeadingDigit(jpgs[i])

C4_Witness ==
    /\ dpc = "built"
    /\ Len(dataset.filenames) = 2
    /\ Len(listing) > Len(dataset.filenames)
    /\ DOMAIN counts = {0, 7}

\* C5 as stated: every label of a constructed dataset, and every label
\* __getitem__ returns, is a class index in [0,5].
C5_LabelsInRange ==
    dpc = "built" =>
        /\ \A i \in 1..Len(dataset.labels) :
              dataset.labels[i] \in 0..(NumClasses - 1)
        /\ item # <<>> => item[2] \in 0..(NumClasses - 1)

\* C5 amended: every label is the leading digit of its file name, so it is
\* in [0,9]; it is a class index in [0,5] exactly when that digit is 0..5,
\* and __getitem__ returns the label stored for the file it decodes.
C5_LabelsAreDigits ==
    dpc = "built" =>
        /\ \A i \in 1..Len(dataset.labels) :
              /\ dataset.labels[i] \in 0..9
              /\ dataset.labels[i] \in 0..(NumClasses - 1) <=>
                    basename(dataset.filenames[i])[1] \in
                        {"0", "1", "2", "3", "4", "5"}
        /\ item # <<>> =>
              \E i \in 1..Len(dataset.labels) :
                  item = <<dataset.filenames[i], dataset.labels[i]>>

C5_Witness == dpc = "built" /\ item # <<>> /\ item[2] = 7

----------------------------------------------------------------------------
(* Spec: one call fetch_dataloader(types, data_dir, params), one step per  *)
(* iteration of its loop over ['train', 'val', 'test']                     *)

TypeNames == {"train", "val", "test", "dev"}

\* the types lists tried: any choice of splits, and an unknown name next to
\* at most one split
TypesSet == {t \in SUBSET TypeNames : "dev" \in t => Cardinality(t) <= 2}

Init ==
    /\ pc = "loop"
    /\ types \in TypesSet
    /\ params \in ParamsSet
    /\ splitIdx = 1
    /\ listing = <<>>
    /\ dataloaders = EmptyDict
    /\ weighted_sampler = NoSampler
    /\ result = EmptyDict
    /\ IdleDataset /\ IdleEpoch /\ IdleNet /\ IdleAcc

\* dataloaders[split] = dl
SetItem(d, k, v) == [x \in DOMAIN d \cup {k} |-> IF x = k THEN v ELSE d[x]]

SplitPath(split) == join(DataDir, SplitChars(split))

\* if split in types: false
SkipSplit ==
    /\ pc = "loop" /\ splitIdx <= Len(SplitOrder)
    /\ SplitOrder[splitIdx] \notin types
    /\ splitIdx' = splitIdx + 1
    /\ UNCHANGED <<pc, types, params, listing, dataloaders, weighted_sampler,
                   result>>
    /\ UNCHANGED <<dpc, dataset, counts, item, epochVars, netVars, accVars>>

\* the split == 'train' branch
BuildTrain ==
    /\ pc = "loop" /\ splitIdx <= Len(SplitOrder)
    /\ SplitOrder[splitIdx] = "train" /\ "train" \in types
    /\ \E entries \in Listings :
         LET train_dataset == LeafDataset(SplitPath("train"), entries)
             ws == get_batched_weighted_sampler(params, train_dataset)
         IN /\ listing' = entries
            /\ IF train_dataset.ok /\ ws.ok
               THEN /\ weighted_sampler' = ws
                    /\ dataloaders' = SetItem(dataloaders, "train",
                            train_loader(params, train_dataset, ws))
                    /\ splitIdx' = splitIdx + 1
                    /\ pc' = "loop"
               ELSE /\ pc' = "fault"
                    /\ UNCHANGED <<weighted_sampler, dataloaders, splitIdx>>
    /\ UNCHANGED <<types, params, result>>
    /\ UNCHANGED <<dpc, dataset, counts, item, epochVars, netVars, accVars>>

\* the else branch: 'val' and 'test'
BuildEval ==
    /\ pc = "loop" /\ splitIdx <= Len(SplitOrder)
    /\ SplitOrder[splitIdx] # "train" /\ SplitOrder[splitIdx] \in types
    /\ \E entries \in Listings :
         LET ds == LeafDataset(SplitPath(SplitOrder[splitIdx]), entries)
         IN /\ listing' = entries
            /\ IF ds.ok
               THEN /\ dataloaders' = SetItem(dataloaders, SplitOrder[splitIdx],
                            eval_loader(params, ds))
                    /\ splitIdx' = splitIdx + 1
                    /\ pc' = "loop"
               ELSE /\ pc' = "fault"
                    /\ UNCHANGED <<dataloaders, splitIdx>>
    /\ UNCHANGED <<types, params, weighted_sampler, result>>
    /\ UNCHANGED <<dpc, dataset, counts, item, epochVars, netVars, accVars>>

\* return dataloaders
Return ==
    /\ pc = "loop" /\ splitIdx > Len(SplitOrder)
    /\ result' = dataloaders
    /\ pc' = "returned"
    /\ UNCHANGED <<types, params, splitIdx, listing, dataloaders,
                   weighted_sampler>>
    /\ UNCHANGED <<dpc, dataset, counts, item, epochVars, netVars, accVars>>

Next == SkipSplit \/ BuildTrain \/ BuildEval \/ Return

Spec == Init /\ [][Next]_vars

\* comparisons of rationals <<n, d>> with d > 0
RatLess(a, b) == a[1] * b[2] < b[1] * a[2]

RECURSIVE RatSum(_)
RatSum(ws) ==
    IF ws = <<>> THEN <<0, 1>>
    ELSE LET r == RatSum(Tail(ws))
         IN <<Head(ws)[1] * r[2] + r[1] * Head(ws)[2], Head(ws)[2] * r[2]>>

\* number of samples carrying label l
CountOf(lbls, l) == Cardinality({j \in 1..Len(lbls) : lbls[j] = l})

\* C3: for a non-empty train dataset each sample's weight is
\* total_count / count[label]; counts of present classes are positive, a
\* class with fewer samples has a strictly higher weight, and the weights of
\* each class add up to total_count.
C3_InverseFrequencyWeights ==
    weighted_sampler.ok =>
        LET lbls == dataloaders["train"].dataset.labels
            n == Len(lbls)
            w == weighted_sampler.weights
        IN /\ n > 0 /\ Len(w) = n
           /\ \A i \in 1..n :
                 /\ CountOf(lbls, lbls[i]) > 0
                 /\ w[i][2] > 0
                 /\ w[i][1] * CountOf(lbls, lbls[i]) = n * w[i][2]
           /\ \A i, j \in 1..n :
                 CountOf(lbls, lbls[i]) < CountOf(lbls, lbls[j])
                     => RatLess(w[j], w[i])
           /\ \A i \in 1..n :
                 LET s == RatSum([k \in 1..n |->
                              IF lbls[k] = lbls[i] THEN w[k] ELSE <<0, 1>>])
                 IN s[1] = n * s[2]

C3_Witness ==
    /\ weighted_sampler.ok
    /\ \E i, j \in 1..Len(weighted_sampler.weights) :
          RatLess(weighted_sampler.weights[i], weighted_sampler.weights[j])

\* C6: the train loader is the weighted-batch-sampling one exactly when
\* params has a true weighed_sampling attribute, the uniform shuffling one
\* otherwise; the returned dict has a loader for each requested split among
\* train, val, test and no other key.
C6_SamplerSelection ==
    pc = "returned" =>
        /\ DOMAIN result = types \cap {"train", "val", "test"}
        /\ "train" \in types =>
              IF params.has_weighed_sampling /\ params.weighed_sampling
              THEN /\ result["train"].sampler = "weighted"
                   /\ result["train"].weights = weighted_sampler.weights
              ELSE /\ result["train"].sampler = "random"
                   /\ result["train"].batch_size = params.batch_size
                   /\ ~result["train"].drop_last

C6_Witness ==
    /\ pc = "returned"
    /\ types = {"train", "dev"}
    /\ ~params.has_weighed_sampling
    /\ result["train"].sampler = "random"

\* a '.jpg' entry whose first character is no decimal digit
HasMalformed(entries) ==
    \E i \in 1..Len(entries) :
        /\ Len(entries[i]) >= 4
        /\ SubSeq(entries[i], Len(entries[i]) - 3, Len(entries[i])) =
               <<".", "j", "p", "g">>
        /\ \A k \in 1..10 : DigitChars[k] # entries[i][1]

\* C10: when the listed directory holds a '.jpg' entry whose first character
\* is not a digit, no dataset is built for that split, the call faults and
\* returns no loaders, those of the splits built before included.
C10_MalformedNameFaults ==
    HasMalformed(listing) =>
        /\ pc = "fault"
        /\ result = EmptyDict
        /\ SplitOrder[splitIdx] \notin DOMAIN dataloaders

C10_Witness ==
    /\ pc = "fault"
    /\ HasMalformed(listing)
    /\ Len(listing) > 1
    /\ "train" \in DOMAIN dataloaders

----------------------------------------------------------------------------
(* SpecEpoch: the traversals of the loader fetch_dataloader([split], ...)  *)
(* returned, one sampler draw per step                                     *)

InitEpoch ==
    /\ \E split \in {"train", "val", "test"}, entries \in Listings :
         LET ds == LeafDataset(SplitPath(split), entries)
             ws == IF split = "train"
                   THEN get_batched_weighted_sampler(params, ds)
                   ELSE NoSampler
             dl == IF split = "train" THEN train_loader(params, ds, ws)
                   ELSE eval_loader(params, ds)
         IN /\ params \in ParamsSet
            /\ ds.ok
            /\ split = "train" => ws.ok
            /\ types = {split}
            /\ listing = entries
            /\ weighted_sampler = ws
            /\ dataloaders = SetItem(EmptyDict, split, dl)
            /\ result = dataloaders
    /\ pc = "returned"
    /\ splitIdx = Len(SplitOrder) + 1
    /\ ipc = "idle" /\ cur = "" /\ drawn = <<>> /\ batch = <<>>
    /\ delivered = <<>> /\ prevOrder = <<>>
    /\ IdleDataset /\ IdleNet /\ IdleAcc

\* for batch in dataloader: a new iterator; prevOrder keeps the indices of
\* the traversal before it
StartEpoch ==
    /\ ipc \in {"idle", "done"}
    /\ \E split \in DOMAIN result : cur' = split
    /\ prevOrder' = IF ipc = "done" THEN <<drawn>> ELSE prevOrder
    /\ drawn' = <<>> /\ batch' = <<>> /\ delivered' = <<>>
    /\ ipc' = "iter"
    /\ UNCHANGED <<dsVars, fetchVars, netVars, accVars>>

\* BatchSampler.__iter__: append the index, yield the batch once it is full
Take(idx) ==
    /\ drawn' = Append(drawn, idx)
    /\ IF Len(batch) + 1 = result[cur].batch_size
       THEN /\ delivered' = Append(delivered, Append(batch, idx))
            /\ batch' = <<>>
       ELSE /\ batch' = Append(batch, idx)
            /\ UNCHANGED delivered
    /\ UNCHANGED <<ipc, cur, prevOrder>>
    /\ UNCHANGED <<dsVars, fetchVars, netVars, accVars>>

\* shuffle=False: SequentialSampler yields 0, 1, ..., n-1
DrawSequential ==
    /\ ipc = "iter" /\ result[cur].sampler = "sequential"
    /\ Len(drawn) < result[cur].num_samples
    /\ Take(Len(drawn))

\* shuffle=True: RandomSampler yields a permutation of 0..n-1
DrawRandom ==
    /\ ipc = "iter" /\ result[cur].sampler = "random"
    /\ Len(drawn) < result[cur].num_samples
    /\ \E idx \in 0..(len(result[cur].dataset) - 1) :
         /\ \A k \in 1..Len(drawn) : drawn[k] # idx
         /\ Take(idx)

\* WeightedRandomSampler: num_samples draws with replacement among the
\* indices of positive weight
DrawWeighted ==
    /\ ipc = "iter" /\ result[cur].sampler = "weighted"
    /\ Len(drawn) < result[cur].num_samples
    /\ \E idx \in 0..(Len(result[cur].weights) - 1) :
         /\ result[cur].weights[idx + 1][1] > 0
         /\ Take(idx)

\* the sampler is exhausted: the partial batch is yielded unless drop_last
EndEpoch ==
    /\ ipc = "iter"
    /\ Len(drawn) = result[cur].num_samples
    /\ delivered' = IF Len(batch) > 0 /\ ~result[cur].drop_last
                    THEN Append(delivered, batch) ELSE delivered
    /\ batch' = <<>>
    /\ ipc' = "done"
    /\ UNCHANGED <<cur, drawn, prevOrder>>
    /\ UNCHANGED <<dsVars, fetchVars, netVars, accVars>>

NextEpoch ==
    StartEpoch \/ DrawSequential \/ DrawRandom \/ DrawWeighted \/ EndEpoch

SpecEpoch == InitEpoch /\ [][NextEpoch]_vars

RECURSIVE Flatten(_)
Flatten(bs) == IF bs = <<>> THEN <<>> ELSE Head(bs) \o Flatten(Tail(bs))

\* C2 as stated: an epoch of the weighted batch sampler draws, and delivers
\* in batches, as many indices as the train dataset has samples.
C2_DeliversTotalCount ==
    (ipc = "done" /\ result[cur].sampler = "weighted") =>
        /\ Len(drawn) = len(result[cur].dataset)
        /\ Len(Flatten(delivered)) = len(result[cur].dataset)

\* C2 amended: the epoch draws total_count indices, but the final partial
\* batch is always dropped: the batches hold the first
\* batch_size * (total_count \div batch_size) draws, batch_size each.
C2_DrawsTotalDeliversFullBatches ==
    (ipc = "done" /\ result[cur].sampler = "weighted") =>
        LET n == len(result[cur].dataset)
            b == result[cur].batch_size
        IN /\ Len(drawn) = n
           /\ \A k \in 1..n : drawn[k] \in 0..(n - 1)
           /\ \A k \in 1..Len(delivered) : Len(delivered[k]) = b
           /\ Len(delivered) = n \div b
           /\ Flatten(delivered) = SubSeq(drawn, 1, b * (n \div b))

C2_Witness ==
    /\ ipc = "done" /\ result[cur].sampler = "weighted"
    /\ Len(drawn) = 3 /\ result[cur].batch_size = 2 /\ Len(delivered) = 1
    /\ drawn[1] = drawn[2]

\* C7: the val and test loaders are unshuffled whatever weighed_sampling is,
\* and every full traversal of an unshuffled loader yields the indices
\* 0..n-1 in dataset order, the same as the traversal before it.
C7_UnshuffledStableOrder ==
    /\ \A split \in DOMAIN result \cap {"val", "test"} :
          result[split].sampler = "sequential"
    /\ (ipc = "done" /\ result[cur].sampler = "sequential") =>
          /\ drawn = [k \in 1..len(result[cur].dataset) |-> k - 1]
          /\ Flatten(delivered) = drawn
          /\ prevOrder # <<>> => prevOrder[1] = drawn

C7_Witness ==
    /\ ipc = "done" /\ cur = "val"
    /\ params.has_weighed_sampling /\ params.weighed_sampling
    /\ prevOrder # <<>>
    /\ Len(drawn) = 3

\* C9: the batches of one epoch of a uniform loader partition the dataset:
\* each index 0..n-1 is in exactly one batch once, every batch but the last
\* has batch_size samples, the last has between 1 and batch_size.
C9_BatchesPartition ==
    (ipc = "done" /\ result[cur].sampler \in {"random", "sequential"}) =>
        LET n == len(result[cur].dataset)
            b == result[cur].batch_size
            flat == Flatten(delivered)
        IN /\ Len(flat) = n
           /\ \A i \in 0..(n - 1) :
                 Cardinality({k \in 1..Len(flat) : flat[k] = i}) = 1
           /\ \A k \in 1..(Len(delivered) - 1) : Len(delivered[k]) = b
           /\ Len(delivered) > 0 =>
                 Len(delivered[Len(delivered)]) \in 1..b

C9_Witness ==
    /\ ipc = "done" /\ result[cur].sampler = "random"
    /\ Len(drawn) = 3 /\ result[cur].batch_size = 2
    /\ Len(delivered) = 2 /\ Len(delivered[2]) = 1
    /\ drawn[1] = 2

----------------------------------------------------------------------------
(* SpecNet: tensor shapes through Net.forward, one layer per step          *)

MaxN == 9

\* params.img_dimension: the side the transforms resize to
ImgDims == {64, 224}

\* nn.Conv2d(in, out, kernel, stride=, padding=) of Net.__init__
conv0 == [cin |-> 3, cout |-> 96, kernel |-> 11, stride |-> 4, padding |-> 2]
conv1 == [cin |-> 96, cout |-> 42, kernel |-> 5, stride |-> 2, padding |-> 2]
conv2 == [cin |-> 42, cout |-> 74, kernel |-> 3, stride |-> 1, padding |-> 2]
conv3 == [cin |-> 74, cout |-> 148, kernel |-> 3, stride |-> 1, padding |-> 2]

\* nn.MaxPool2d(2, stride=2), the same for pool0..pool3
pool == [kernel |-> 2, stride |-> 2]

\* nn.Linear(in, out)
fc1 == [fin |-> 1332, fout |-> 600]
fc2 == [fin |-> 600, fout |-> 200]
fc3 == [fin |-> 200, fout |-> 6]

\* s.view(-1, 1332)
FlatFeatures == 1332

\* output side of a convolution (floor division, dilation 1)
conv_side(h, c) == (h + 2 * c.padding - c.kernel) \div c.stride + 1

\* output side of a max pool (no padding, floor mode)
pool_side(h, q) == (h - q.kernel) \div q.stride + 1

\* conv followed by batch norm, which keeps the shape; <<>> when the layer
\* rejects its input
conv_shape(sh, c) ==
    IF sh[2] # c.cin \/ sh[3] + 2 * c.padding < c.kernel
          \/ sh[4] + 2 * c.padding < c.kernel
    THEN <<>>
    ELSE <<sh[1], c.cout, conv_side(sh[3], c), conv_side(sh[4], c)>>

\* max pool followed by relu
pool_shape(sh, q) ==
    IF sh[3] < q.kernel \/ sh[4] < q.kernel THEN <<>>
    ELSE <<sh[1], sh[2], pool_side(sh[3], q), pool_side(sh[4], q)>>

\* view(-1, 1332): needs the element count to be a multiple of 1332
view_shape(sh) ==
    LET numel == sh[1] * sh[2] * sh[3] * sh[4]
    IN IF numel % FlatFeatures # 0 THEN <<>>
       ELSE <<numel \div FlatFeatures, FlatFeatures>>

\* linear layer (with the relu / dropout after it)
linear_shape(sh, l) == IF sh[2] # l.fin THEN <<>> ELSE <<sh[1], l.fout>>

InitNet ==
    /\ npc = "conv0"
    /\ \E n \in 1..MaxN, d \in ImgDims : input = <<n, 3, d, d>>
    /\ shape = input
    /\ listing = <<>>
    /\ IdleDataset /\ IdleFetch /\ IdleEpoch /\ IdleAcc

\* one layer of forward; a rejected input ends the call with a RuntimeError
Layer(at, sh, to) ==
    /\ npc = at
    /\ IF sh = <<>> THEN npc' = "fault" /\ UNCHANGED shape
       ELSE npc' = to /\ shape' = sh
    /\ UNCHANGED <<input, dsVars, fetchVars, epochVars, accVars>>

Conv0 == Layer("conv0", conv_shape(shape, conv0), "pool0")
Pool0 == Layer("pool0", pool_shape(shape, pool), "conv1")
Conv1 == Layer("conv1", conv_shape(shape, conv1), "pool1")
Pool1 == Layer("pool1", pool_shape(shape, pool), "conv2")
Conv2 == Layer("conv2", conv_shape(shape, conv2), "pool2")
Pool2 == Layer("pool2", pool_shape(shape, pool), "conv3")
Conv3 == Layer("conv3", conv_shape(shape, conv3), "pool3")
Pool3 == Layer("pool3", pool_shape(shape, pool), "view")
View == Layer("view", view_shape(shape), "fc1")
Fc1 == Layer("fc1", linear_shape(shape, fc1), "fc2")
Fc2 == Layer("fc2", linear_shape(shape, fc2), "fc3")
Fc3 == Layer("fc3", linear_shape(shape, fc3), "out")

NextNet ==
    \/ Conv0 \/ Pool0 \/ Conv1 \/ Pool1 \/ Conv2 \/ Pool2 \/ Conv3 \/ Pool3
    \/ View \/ Fc1 \/ Fc2 \/ Fc3

SpecNet == InitNet /\ [][NextNet]_vars

\* C1: forward on an input of shape (N,3,64,64) reaches the flatten step
\* with 1332 features per image and returns an output of shape (N,6).
C1_ForwardShape64 ==
    input[3] = 64 =>
        /\ npc # "fault"
        /\ npc = "view" => shape[2] * shape[3] * shape[4] = FlatFeatures
        /\ npc = "out" => shape = <<input[1], 6>>

\* what the layers do give: (N,6) for 224 x 224 inputs
NetShape224 ==
    input[3] = 224 =>
        /\ npc # "fault"
        /\ npc = "view" => shape[2] * shape[3] * shape[4] = FlatFeatures
        /\ npc = "out" => shape = <<input[1], 6>>

----------------------------------------------------------------------------
(* SpecAcc: accuracy(outputs, labels)                                      *)

MaxRows == 2

MaxCols == 2

\* logit values of the batches tried
LogitValues == {0, 1}

\* variant returning the last maximal index
RECURSIVE argmax_last_from(_, _, _)
argmax_last_from(row, i, best) ==
    IF i > Len(row) THEN best - 1
    ELSE argmax_last_from(row, i + 1, IF row[i] >= row[best] THEN i ELSE best)

argmax_last(row) == argmax_last_from(row, 2, 1)

\* np.argmax over one row: the first index holding the maximum
RECURSIVE argmax_from(_, _, _)
argmax_from(row, i, best) ==
    IF i > Len(row) THEN best - 1
    ELSE argmax_from(row, i + 1, IF row[i] > row[best] THEN i ELSE best)

argmax(row) == argmax_from(row, 2, 1)

\* np.sum(outputs == labels)
RECURSIVE count_equal(_, _)
count_equal(a, b) ==
    IF a = <<>> THEN 0
    ELSE (IF Head(a) = Head(b) THEN 1 ELSE 0) + count_equal(Tail(a), Tail(b))

InitAcc ==
    /\ apc = "start"
    /\ \E rows \in 1..MaxRows, cols \in 1..MaxCols :
         /\ outputs \in [1..rows -> [1..cols -> LogitValues]]
         /\ labels \in [1..rows -> 0..(MaxCols - 1)]
    /\ preds = <<>>
    /\ acc = <<>>
    /\ listing = <<>>
    /\ IdleDataset /\ IdleFetch /\ IdleEpoch /\ IdleNet

\* outputs = np.argmax(outputs, axis=1)
ArgMax ==
    /\ apc = "start"
    /\ preds' = [i \in 1..Len(outputs) |-> argmax(outputs[i])]
    /\ apc' = "argmax"
    /\ UNCHANGED <<outputs, labels, acc>>
    /\ UNCHANGED <<dsVars, fetchVars, epochVars, netVars>>

\* return np.sum(outputs == labels) / float(labels.size)
Score ==
    /\ apc = "argmax"
    /\ acc' = <<count_equal(preds, labels), Len(labels)>>
    /\ apc' = "done"
    /\ UNCHANGED <<outputs, labels, preds>>
    /\ UNCHANGED <<dsVars, fetchVars, epochVars, netVars>>

NextAcc == ArgMax \/ Score

SpecAcc == InitAcc /\ [][NextAcc]_vars

\* label l is the first maximal index of the row
IsFirstMax(row, l) ==
    /\ l + 1 \in 1..Len(row)
    /\ \A j \in 1..Len(row) : row[j] <= row[l + 1]
    /\ \A j \in 1..l : row[j] < row[l + 1]

\* C8: accuracy is the number of rows whose first maximal index equals the
\* label, over the batch size, hence in [0,1]; it is 1.0 for
\* ([[0,1],[1,0]], [1,0]) and 0.0 for ([[0,1],[1,0]], [0,1]).
C8_AccuracyIsMatchFraction ==
    apc = "done" =>
        /\ acc[2] = Len(labels) /\ acc[2] > 0
        /\ acc[1] = Cardinality({i \in 1..Len(labels) :
                                    IsFirstMax(outputs[i], labels[i])})
        /\ 0 <= acc[1] /\ acc[1] <= acc[2]
        /\ outputs = <<(<<0, 1>>), (<<1, 0>>)>> =>
              /\ labels = <<1, 0>> => acc[1] = acc[2]
              /\ labels = <<0, 1>> => acc[1] = 0

C8_Witness ==
    /\ apc = "done"
    /\ outputs = <<(<<0, 1>>), (<<1, 0>>)>>
    /\ labels = <<1, 0>>
    /\ acc = <<2, 2>>

====
